---- MODULE Spec2Model ----
(***************************************************************************)
(* Model of the WebSocket signalling server of src/server.js (the version  *)
(* with groups, lines 134-416): the two registries `rooms` and `groups`,   *)
(* the message handler (one action per `case` of the switch) and the       *)
(* 'close' handler.                                                        *)
(*                                                                         *)
(* Abstractions, stated once:                                              *)
(*  - a connection object `ws` is its allocation index 1..MaxConns; the    *)
(*    JavaScript null is NoConn;                                           *)
(*  - `sent` holds the records that the LAST handler run passed to         *)
(*    ws.send, as a bag (recipient and content are kept, the order of the  *)
(*    sends is not); `last` names the event that handler ran for;          *)
(*  - `members` is a set (the insertion order of the JavaScript Set only   *)
(*    decides the order of sends);                                         *)
(*  - `logged` holds the console.log / console.warn lines of the last      *)
(*    handler run, each as its fixed text and the session id it names      *)
(*    (member counts and payloads inside a line are left out);             *)
(*  - createdAt (Date.now()) is read by no handler and is left out;        *)
(*  - Math.random() is a nondeterministic draw.                            *)
(***************************************************************************)
EXTENDS Integers, FiniteSets, Sequences, Bags, TLC

\* ---------------------------------------------------------------- bounds
MaxConns == 3          \* connections ever accepted
MaxRoomDraws == 2      \* distinct values the room id draw can take
MaxGroupDraws == 2     \* distinct values the group id draw can take
MaxGiven == 2          \* largest maxMembers a create-group request carries

\* ------------------------------------------------------ program constants
IdBase == 100000
DefaultMaxMembers == 20

NoConn == 0

\* Math.floor(100000 + Math.random() * 900000).toString()
RoomIdDraw(k) == ToString(IdBase + k)
GroupIdDraw(k) == ToString(IdBase + k)

RoomDraws == 0..(MaxRoomDraws - 1)
GroupDraws == 0..(MaxGroupDraws - 1)

\* data.roomId / data.groupId of a request: any id the server may hand out
RoomIdInputs == {RoomIdDraw(k) : k \in RoomDraws}
GroupIdInputs == {GroupIdDraw(k) : k \in GroupDraws}

\* data.maxMembers of a create-group request: absent, or a number
NoMax == [given |-> FALSE, val |-> 0]
MaxMembersInputs == {NoMax} \cup {[given |-> TRUE, val |-> v] : v \in 0..MaxGiven}

\* request bodies relayed verbatim (sdp / candidate / message / magnetLink...)
Bodies == {"b1"}
NoBody == ""

VARIABLES
  nconn,     \* number of connections accepted so far
  clients,   \* wss.clients: the open connections
  rooms,     \* Map roomId -> {host, guest}
  groups,    \* Map groupId -> {host, members, maxMembers, isOpen}
  sent,      \* bag of the records sent by the last handler run
  logged,    \* the console lines written by the last handler run
  last       \* the event the last handler ran for

vars == <<nconn, clients, rooms, groups, sent, logged, last>>

\* one outbound record: ws.send(JSON.stringify({...})) on connection `to`
Msg(to, type, id, text, count, max, body) ==
  [to |-> to, type |-> type, id |-> id, text |-> text,
   count |-> count, max |-> max, body |-> body]

Event(type, ws, id, max, body) ==
  [type |-> type, ws |-> ws, id |-> id, max |-> max, body |-> body]

\* one console line
Log(line, id) == [line |-> line, id |-> id]

\* forEach over a set of recipients, one record each
Broadcast(recipients, type, id, text, count, max, body) ==
  SetToBag({Msg(m, type, id, text, count, max, body) : m \in recipients})

Init ==
  /\ nconn = 0
  /\ clients = {}
  /\ rooms = << >>
  /\ groups = << >>
  /\ sent = EmptyBag
  /\ logged = {}
  /\ last = Event("init", NoConn, "", NoMax, NoBody)

\* wss.on('connection'): a new connection object, only handlers registered
Connect ==
  /\ nconn < MaxConns
  /\ nconn' = nconn + 1
  /\ clients' = clients \cup {nconn + 1}
  /\ sent' = EmptyBag
  /\ last' = Event("connection", nconn + 1, "", NoMax, NoBody)
  /\ logged' = {Log("New WebSocket connection established", "")}
  /\ UNCHANGED <<rooms, groups>>

\* Map.set(key, value)
MapSet(map, key, value) ==
  [k \in DOMAIN map \cup {key} |-> IF k = key THEN value ELSE map[k]]

\* the Map after Map.delete(key) for every key in `dead`
MapDelete(map, dead) ==
  [k \in DOMAIN map \ dead |-> map[k]]

\* the draw returned without the rooms.has(roomId) test
generateUniqueRoomId_NoCheck ==
  {RoomIdDraw(k) : k \in RoomDraws}

\* do { draw } while (rooms.has(roomId)): the values the loop can return
generateUniqueRoomId ==
  {RoomIdDraw(k) : k \in RoomDraws} \ DOMAIN rooms

generateUniqueGroupId ==
  {GroupIdDraw(k) : k \in GroupDraws} \ DOMAIN groups

\* ------------------------------------------------------------- rooms
\* case 'create-room'
CreateRoom(ws) ==
  \E roomId \in generateUniqueRoomId :
    /\ rooms' = MapSet(rooms, roomId, [host |-> ws, guest |-> NoConn])
    /\ sent' = SetToBag({Msg(ws, "room-created", roomId, "", 0, 0, NoBody)})
    /\ last' = Event("create-room", ws, roomId, NoMax, NoBody)
    /\ logged' = {Log("Room created", roomId)}
    /\ UNCHANGED <<nconn, clients, groups>>

\* the guest test dropped: room only
JoinRoomOk_NoGuestTest(id) ==
  id \in DOMAIN rooms

\* room && !room.guest
JoinRoomOk(id) ==
  id \in DOMAIN rooms /\ rooms[id].guest = NoConn

\* case 'join-room'
JoinRoom(ws, id) ==
  /\ IF JoinRoomOk(id)
       THEN /\ rooms' = [rooms EXCEPT ![id].guest = ws]
            /\ sent' = SetToBag({Msg(rooms[id].host, "peer-joined", "", "", 0, 0, NoBody)})
                       (+) SetToBag({Msg(ws, "peer-joined", "", "", 0, 0, NoBody)})
       ELSE /\ rooms' = rooms
            /\ sent' = SetToBag({Msg(ws, "error", "", "Room not found or full", 0, 0, NoBody)})
  /\ last' = Event("join-room", ws, id, NoMax, NoBody)
  /\ logged' = IF JoinRoomOk(id) THEN {Log("User joined room", id)} ELSE {}
  /\ UNCHANGED <<nconn, clients, groups>>

\* the comparison made with the guest: an unrecognised sender reaches the guest
SignalTarget_GuestFallback(r, ws) ==
  IF ws = r.guest THEN r.host ELSE r.guest

\* the sender test dropped: always the host
SignalTarget_AlwaysHost(r, ws) ==
  r.host

\* const target = ws === r.host ? r.guest : r.host
SignalTarget(r, ws) ==
  IF ws = r.host THEN r.guest ELSE r.host

\* case 'signal': JSON.stringify(data) goes to the target, if there is one
Signal(ws, id, body) ==
  /\ sent' = IF id \in DOMAIN rooms /\ SignalTarget(rooms[id], ws) # NoConn
               THEN SetToBag({Msg(SignalTarget(rooms[id], ws), "signal", id, "", 0, 0, body)})
               ELSE EmptyBag
  /\ last' = Event("signal", ws, id, NoMax, body)
  /\ logged' = {}
  /\ UNCHANGED <<nconn, clients, rooms, groups>>

\* the relay without its !== ws test
ChatRelay_EchoesSender(to, ws, id, body) ==
  IF to # NoConn
    THEN SetToBag({Msg(to, "chat-message", id, "", 0, 0, body)})
    ELSE EmptyBag

\* if (roomChat.host && roomChat.host !== ws) roomChat.host.send(...), and
\* the same statement for roomChat.guest
ChatRelay(to, ws, id, body) ==
  IF to # NoConn /\ to # ws
    THEN SetToBag({Msg(to, "chat-message", id, "", 0, 0, body)})
    ELSE EmptyBag

\* case 'chat-message'
ChatMessage(ws, id, body) ==
  /\ sent' = IF id \in DOMAIN rooms
               THEN ChatRelay(rooms[id].host, ws, id, body)
                    (+) ChatRelay(rooms[id].guest, ws, id, body)
               ELSE EmptyBag
  /\ last' = Event("chat-message", ws, id, NoMax, body)
  /\ logged' = IF id \in DOMAIN rooms
                  THEN {Log("Relayed chat-message", id)}
                  ELSE {Log("chat-message: Room not found", id)}
  /\ UNCHANGED <<nconn, clients, rooms, groups>>

\* ------------------------------------------------------------- groups
\* const maxMembers = data.maxMembers || 20   (0 and undefined are falsy)
EffectiveMaxMembers(max) ==
  IF max.given /\ max.val # 0 THEN max.val ELSE DefaultMaxMembers

\* case 'create-group'
CreateGroup(ws, max) ==
  \E groupId \in generateUniqueGroupId :
    LET maxMembers == EffectiveMaxMembers(max) IN
    /\ groups' = MapSet(groups, groupId,
                        [host |-> ws, members |-> {ws},
                         maxMembers |-> maxMembers, isOpen |-> TRUE])
    /\ sent' = SetToBag({Msg(ws, "group-created", groupId, "", 0, maxMembers, NoBody)})
    /\ last' = Event("create-group", ws, groupId, max, NoBody)
    /\ logged' = {Log("Group created", groupId)}
    /\ UNCHANGED <<nconn, clients, rooms>>

\* the test without its capacity conjunct
JoinGroupOk_IgnoresCapacity(id) ==
  id \in DOMAIN groups /\ groups[id].isOpen

\* the capacity test off by one: size <= maxMembers
JoinGroupOk_OffByOne(id) ==
  /\ id \in DOMAIN groups
  /\ groups[id].isOpen
  /\ Cardinality(groups[id].members) <= groups[id].maxMembers

\* group && group.isOpen && group.members.size < group.maxMembers
JoinGroupOk(id) ==
  /\ id \in DOMAIN groups
  /\ groups[id].isOpen
  /\ Cardinality(groups[id].members) < groups[id].maxMembers

\* group ? 'Group is full or closed' : 'Group not found'
JoinGroupError(id) ==
  IF id \in DOMAIN groups THEN "Group is full or closed" ELSE "Group not found"

\* the size read before group.members.add(ws)
JoinedCount_BeforeAdd(id, ws) ==
  Cardinality(groups[id].members)

\* memberCount: group.members.size, read after group.members.add(ws)
JoinedCount(id, ws) ==
  Cardinality(groups[id].members \cup {ws})

\* case 'join-group'
JoinGroup(ws, id) ==
  /\ IF JoinGroupOk(id)
       THEN LET members == groups[id].members \cup {ws}
                size == JoinedCount(id, ws) IN
            /\ groups' = [groups EXCEPT ![id].members = members]
            /\ sent' = Broadcast(members \ {ws}, "member-joined", id, "", size, 0, NoBody)
                       (+) SetToBag({Msg(ws, "group-joined", id, "", size,
                                         groups[id].maxMembers, NoBody)})
       ELSE /\ groups' = groups
            /\ sent' = SetToBag({Msg(ws, "error", "", JoinGroupError(id), 0, 0, NoBody)})
  /\ last' = Event("join-group", ws, id, NoMax, NoBody)
  /\ logged' = IF JoinGroupOk(id) THEN {Log("User joined group", id)} ELSE {}
  /\ UNCHANGED <<nconn, clients, rooms>>

\* membership tested where the host is meant
IsGroupHost_AnyMember(id, ws) ==
  id \in DOMAIN groups /\ ws \in groups[id].members

\* groupToClose && groupToClose.host === ws   (same test in share-torrent)
IsGroupHost(id, ws) ==
  id \in DOMAIN groups /\ groups[id].host = ws

\* a close that also empties the group down to its host
ClosedGroup_DropsMembers(g) ==
  [g EXCEPT !.isOpen = FALSE, !.members = {g.host}]

\* a close that flips the flag
ClosedGroup_Toggle(g) ==
  [g EXCEPT !.isOpen = ~@]

\* groupToClose.isOpen = false
ClosedGroup(g) ==
  [g EXCEPT !.isOpen = FALSE]

\* case 'close-group'
CloseGroup(ws, id) ==
  /\ IF IsGroupHost(id, ws)
       THEN /\ groups' = [groups EXCEPT ![id] = ClosedGroup(groups[id])]
            /\ sent' = Broadcast(groups[id].members, "group-closed", id, "", 0, 0, NoBody)
       ELSE /\ groups' = groups
            /\ sent' = EmptyBag
  /\ last' = Event("close-group", ws, id, NoMax, NoBody)
  /\ logged' = IF IsGroupHost(id, ws) THEN {Log("Group closed by host", id)} ELSE {}
  /\ UNCHANGED <<nconn, clients, rooms>>

\* the forEach without its member !== ws test
ShareRecipients_All(id, ws) ==
  groups[id].members

\* groupToShare.members.forEach(member => { if (member !== ws) ... })
ShareRecipients(id, ws) ==
  groups[id].members \ {ws}

\* case 'share-torrent': magnetLink, fileName, fileSize, infoHash are `body`
ShareTorrent(ws, id, body) ==
  /\ sent' = IF IsGroupHost(id, ws)
               THEN Broadcast(ShareRecipients(id, ws), "torrent-shared", id, "", 0, 0, body)
               ELSE EmptyBag
  /\ last' = Event("share-torrent", ws, id, NoMax, body)
  /\ logged' = IF IsGroupHost(id, ws) THEN {Log("Torrent shared in group", id)} ELSE {}
  /\ UNCHANGED <<nconn, clients, rooms, groups>>

\* groupChat && groupChat.members.has(ws)
IsGroupMember(id, ws) ==
  id \in DOMAIN groups /\ ws \in groups[id].members

\* case 'group-chat'
GroupChat(ws, id, body) ==
  /\ sent' = IF IsGroupMember(id, ws)
               THEN Broadcast(groups[id].members \ {ws}, "group-chat", id, "", 0, 0, body)
               ELSE EmptyBag
  /\ last' = Event("group-chat", ws, id, NoMax, body)
  /\ logged' = IF IsGroupMember(id, ws) THEN {Log("Group chat message relayed", id)} ELSE {}
  /\ UNCHANGED <<nconn, clients, rooms, groups>>

\* ------------------------------------------------------------- close
\* only the host slot compared
RoomsOf_HostOnly(ws) ==
  {id \in DOMAIN rooms : rooms[id].host = ws}

\* room.host === ws || room.guest === ws
RoomsOf(ws) ==
  {id \in DOMAIN rooms : rooms[id].host = ws \/ rooms[id].guest = ws}

\* group.members.has(ws)
GroupsOf(ws) ==
  {id \in DOMAIN groups : ws \in groups[id].members}

\* ... && group.host === ws
GroupsHostedBy(ws) ==
  {id \in GroupsOf(ws) : groups[id].host = ws}

\* the host test dropped: a group is deleted only when nobody is left
GroupsDeletedBy_EmptyOnly(ws) ==
  {id \in GroupsOf(ws) : groups[id].members \ {ws} = {}}

\* every group of the connection deleted, whoever hosts it
GroupsDeletedBy_AnyMember(ws) ==
  GroupsOf(ws)

\* groups the close handler deletes: the host left, or nobody is left
GroupsDeletedBy(ws) ==
  GroupsHostedBy(ws) \cup {id \in GroupsOf(ws) : groups[id].members \ {ws} = {}}

\* the broadcast run before group.members.delete(ws)
HostLeftRecipients_BeforeDelete(id, ws) ==
  groups[id].members

\* group.members.delete(ws), then group.members.forEach(...)
HostLeftRecipients(id, ws) ==
  groups[id].members \ {ws}

\* the group-closed records of the close handler, over all groups ws hosted
HostLeftNotices(ws) ==
  SetToBag(UNION {{Msg(m, "group-closed", id, "Host disconnected", 0, 0, NoBody) :
                     m \in HostLeftRecipients(id, ws)} : id \in GroupsHostedBy(ws)})

\* the loop without its group.members.delete(ws)
GroupsAfterClose_KeepsMember(ws) ==
  [id \in DOMAIN groups \ GroupsDeletedBy(ws) |-> groups[id]]

\* a handler that leaves the group registry as it found it
GroupsAfterClose_Untouched(ws) ==
  groups

\* the group registry after the handler's loop over groups:
\* group.members.delete(ws), groups.delete(groupId)
GroupsAfterClose(ws) ==
  [id \in DOMAIN groups \ GroupsDeletedBy(ws) |->
     [groups[id] EXCEPT !.members = @ \ {ws}]]

\* the body of the 'close' callback, for the socket ws it closes over
CloseHandler(ws) ==
  /\ rooms' = MapDelete(rooms, RoomsOf(ws))
  /\ groups' = GroupsAfterClose(ws)
  /\ sent' = HostLeftNotices(ws)
  /\ logged' = {Log("Room closed due to disconnect", id) : id \in RoomsOf(ws)}
                \cup {Log("Member left group", id) : id \in GroupsOf(ws)}
                \cup {Log("Group closed due to host disconnect", id) : id \in GroupsHostedBy(ws)}
                \cup {Log("Group deleted due to no members", id) :
                        id \in GroupsDeletedBy(ws) \ GroupsHostedBy(ws)}

\* ws.on('close'): the socket has closed and its callback runs
Close(ws) ==
  /\ clients' = clients \ {ws}
  /\ CloseHandler(ws)
  /\ last' = Event("close", ws, "", NoMax, NoBody)
  /\ UNCHANGED nconn

\* the same callback invoked once more for the socket it has just handled
Reclose(ws) ==
  /\ last.type = "close"
  /\ last.ws = ws
  /\ CloseHandler(ws)
  /\ last' = Event("close-again", ws, "", NoMax, NoBody)
  /\ UNCHANGED <<nconn, clients>>

\* ------------------------------------------------------ specifications
\* the whole server
Next ==
  \/ Connect
  \/ \E ws \in clients : CreateRoom(ws)
  \/ \E ws \in clients, id \in RoomIdInputs : JoinRoom(ws, id)
  \/ \E ws \in clients, id \in RoomIdInputs, body \in Bodies : Signal(ws, id, body)
  \/ \E ws \in clients, id \in RoomIdInputs, body \in Bodies : ChatMessage(ws, id, body)
  \/ \E ws \in clients, max \in MaxMembersInputs : CreateGroup(ws, max)
  \/ \E ws \in clients, id \in GroupIdInputs : JoinGroup(ws, id)
  \/ \E ws \in clients, id \in GroupIdInputs : CloseGroup(ws, id)
  \/ \E ws \in clients, id \in GroupIdInputs, body \in Bodies : ShareTorrent(ws, id, body)
  \/ \E ws \in clients, id \in GroupIdInputs, body \in Bodies : GroupChat(ws, id, body)
  \/ \E ws \in clients : Close(ws)

Spec == Init /\ [][Next]_vars

\* The relays (signal, chat-message, share-torrent, group-chat) write only
\* sent, logged and last, which every handler overwrites and none reads; the
\* specifications below leave out the relays that a property is not about,
\* and reach the same registries as Spec.

\* rooms: create, join and teardown
NextRoomJoin ==
  \/ Connect
  \/ \E ws \in clients : CreateRoom(ws)
  \/ \E ws \in clients, id \in RoomIdInputs : JoinRoom(ws, id)
  \/ \E ws \in clients : Close(ws)

SpecRoomJoin == Init /\ [][NextRoomJoin]_vars

\* rooms with the signal relay
NextSignal ==
  \/ Connect
  \/ \E ws \in clients : CreateRoom(ws)
  \/ \E ws \in clients, id \in RoomIdInputs : JoinRoom(ws, id)
  \/ \E ws \in clients, id \in RoomIdInputs, body \in Bodies : Signal(ws, id, body)
  \/ \E ws \in clients : Close(ws)

SpecSignal == Init /\ [][NextSignal]_vars

\* rooms with the chat relay
NextChat ==
  \/ Connect
  \/ \E ws \in clients : CreateRoom(ws)
  \/ \E ws \in clients, id \in RoomIdInputs : JoinRoom(ws, id)
  \/ \E ws \in clients, id \in RoomIdInputs, body \in Bodies : ChatMessage(ws, id, body)
  \/ \E ws \in clients : Close(ws)

SpecChat == Init /\ [][NextChat]_vars

\* groups with all their handlers
NextGroups ==
  \/ Connect
  \/ \E ws \in clients, max \in MaxMembersInputs : CreateGroup(ws, max)
  \/ \E ws \in clients, id \in GroupIdInputs : JoinGroup(ws, id)
  \/ \E ws \in clients, id \in GroupIdInputs : CloseGroup(ws, id)
  \/ \E ws \in clients, id \in GroupIdInputs, body \in Bodies : ShareTorrent(ws, id, body)
  \/ \E ws \in clients, id \in GroupIdInputs, body \in Bodies : GroupChat(ws, id, body)
  \/ \E ws \in clients : Close(ws)

SpecGroups == Init /\ [][NextGroups]_vars

\* groups: create, join, close-group and teardown
NextMembership ==
  \/ Connect
  \/ \E ws \in clients, max \in MaxMembersInputs : CreateGroup(ws, max)
  \/ \E ws \in clients, id \in GroupIdInputs : JoinGroup(ws, id)
  \/ \E ws \in clients, id \in GroupIdInputs : CloseGroup(ws, id)
  \/ \E ws \in clients : Close(ws)

SpecMembership == Init /\ [][NextMembership]_vars

\* both registries together: sessions are created (groups with the default
\* capacity), joined and torn down.  The close handler reads neither
\* maxMembers nor isOpen, and the relays change no registry.
NextTeardown ==
  \/ Connect
  \/ \E ws \in clients : CreateRoom(ws)
  \/ \E ws \in clients, id \in RoomIdInputs : JoinRoom(ws, id)
  \/ \E ws \in clients : CreateGroup(ws, NoMax)
  \/ \E ws \in clients, id \in GroupIdInputs : JoinGroup(ws, id)
  \/ \E ws \in clients : Close(ws)

SpecTeardown == Init /\ [][NextTeardown]_vars

\* the teardown specification with the 'close' callback run twice in a row.
\* The socket library emits 'close' once per socket; the second run is the
\* invocation the callback has to be safe against.
NextReclose ==
  \/ Connect
  \/ \E ws \in clients : CreateRoom(ws)
  \/ \E ws \in clients, id \in RoomIdInputs : JoinRoom(ws, id)
  \/ \E ws \in clients : CreateGroup(ws, NoMax)
  \/ \E ws \in clients, id \in GroupIdInputs : JoinGroup(ws, id)
  \/ \E ws \in clients : Close(ws)
  \/ \E ws \in (1..nconn) \ clients : Reclose(ws)

SpecReclose == Init /\ [][NextReclose]_vars

\* ------------------------------------------------------------- claims
PeerJoined(to) == Msg(to, "peer-joined", "", "", 0, 0, NoBody)
RoomError(to) == Msg(to, "error", "", "Room not found or full", 0, 0, NoBody)
GroupError(to, text) == Msg(to, "error", "", text, 0, 0, NoBody)

\* C1: a create-room (create-group) returns an id that is not the key of a
\* live room (group) and leaves every live room (group) as it was, so ids of
\* live sessions of one registry stay pairwise distinct and a create never
\* overwrites a session; a room id may equal a group id.
C1_CreateNeverOverwrites ==
  [][ /\ last'.type = "create-room" =>
           /\ last'.id \notin DOMAIN rooms
           /\ DOMAIN rooms' = DOMAIN rooms \cup {last'.id}
           /\ \A id \in DOMAIN rooms : rooms'[id] = rooms[id]
      /\ last'.type = "create-group" =>
           /\ last'.id \notin DOMAIN groups
           /\ DOMAIN groups' = DOMAIN groups \cup {last'.id}
           /\ \A id \in DOMAIN groups : groups'[id] = groups[id] ]_vars

\* a room was created while another room was live, under an id that is also
\* the id of a live group
C1_Witness ==
  /\ last.type = "create-room"
  /\ Cardinality(DOMAIN rooms) >= 2
  /\ last.id \in DOMAIN groups

\* C2: a join-room naming an id with no live room, or a room whose guest slot
\* is occupied, sends one error record to the requester and nothing else,
\* and leaves the room registry unchanged, whoever the requester is.
C2_JoinRoomFails ==
  [][ (/\ last'.type = "join-room"
       /\ \/ last'.id \notin DOMAIN rooms
          \/ rooms[last'.id].guest # NoConn)
      => /\ sent' = SetToBag({RoomError(last'.ws)})
         /\ rooms' = rooms ]_vars

\* the host of a full room asked to join it and was refused
C2_Witness ==
  /\ last.type = "join-room"
  /\ last.id \in DOMAIN rooms
  /\ rooms[last.id].host = last.ws
  /\ rooms[last.id].guest \notin {NoConn, last.ws}
  /\ sent = SetToBag({RoomError(last.ws)})

\* C3: after a successful join-room the host receives exactly one peer-joined,
\* the joining connection receives exactly one peer-joined, and nobody else
\* receives anything.
C3_OnePeerJoinedEach ==
  [][ (/\ last'.type = "join-room"
       /\ last'.id \in DOMAIN rooms
       /\ rooms[last'.id].guest = NoConn)
      => /\ CopiesIn(PeerJoined(rooms[last'.id].host), sent') = 1
         /\ CopiesIn(PeerJoined(last'.ws), sent') = 1
         /\ \A m \in BagToSet(sent') : m.to \in {rooms[last'.id].host, last'.ws} ]_vars

\* C4: every live room has at most one guest, and a guest that is present is
\* a connection other than the room's host.
C4_GuestIsNotHost ==
  \A id \in DOMAIN rooms :
    rooms[id].guest # NoConn => rooms[id].guest # rooms[id].host

\* C5: a signal for a live room from its host goes to the guest only, one
\* from its guest goes to the host only; with an empty guest slot or no such
\* room nothing is sent; no state changes.
C5_SignalRelay ==
  [][ last'.type = "signal" =>
        LET id == last'.id
            ws == last'.ws
            relayed(to) == Msg(to, "signal", id, "", 0, 0, last'.body)
        IN /\ rooms' = rooms /\ groups' = groups /\ clients' = clients
           /\ id \notin DOMAIN rooms => sent' = EmptyBag
           /\ id \in DOMAIN rooms =>
                /\ (ws = rooms[id].host /\ rooms[id].guest = NoConn)
                     => sent' = EmptyBag
                /\ (ws = rooms[id].host /\ rooms[id].guest # NoConn)
                     => sent' = SetToBag({relayed(rooms[id].guest)})
                /\ ws = rooms[id].guest
                     => sent' = SetToBag({relayed(rooms[id].host)}) ]_vars

\* the host of a room with a guest signalled, and the guest alone got it
C5_Witness ==
  /\ last.type = "signal"
  /\ last.id \in DOMAIN rooms
  /\ rooms[last.id].host = last.ws
  /\ rooms[last.id].guest \notin {NoConn, last.ws}
  /\ sent = SetToBag({Msg(rooms[last.id].guest, "signal", last.id, "", 0, 0, last.body)})

RoomClosedLine(id) == Log("Room closed due to disconnect", id)
HostLeftLine(id) == Log("Group closed due to host disconnect", id)
HostLeft(to, id) == Msg(to, "group-closed", id, "Host disconnected", 0, 0, NoBody)

\* the rooms in which ws takes part, and the other participants of those
ParticipatingRooms(ws) ==
  {id \in DOMAIN rooms : rooms[id].host = ws \/ rooms[id].guest = ws}
Survivors(ws) ==
  UNION {{rooms[id].host, rooms[id].guest} : id \in ParticipatingRooms(ws)}
    \ {ws, NoConn}

\* the registry part of C6: a close removes exactly the rooms of the closed
\* connection, and a join-room issued next on a removed id is refused
C6_RoomsRemoved ==
  /\ last'.type = "close" =>
       /\ DOMAIN rooms' = DOMAIN rooms \ ParticipatingRooms(last'.ws)
       /\ \A id \in DOMAIN rooms' : rooms'[id] = rooms[id]
  /\ (/\ last.type = "close"
      /\ last'.type = "join-room"
      /\ RoomClosedLine(last'.id) \in logged)
     => /\ sent' = SetToBag({RoomError(last'.ws)})
        /\ rooms' = rooms

\* C6 as stated: when a connection closes, every room in which it is host or
\* guest is removed, the surviving participant receives no message, and a
\* join-room on such an id issued afterwards fails.
C6_SurvivorReceivesNothing ==
  [][ /\ C6_RoomsRemoved
      /\ last'.type = "close" =>
           \A m \in BagToSet(sent') : m.to \notin Survivors(last'.ws) ]_vars

\* C6 as amended: the close sends nothing on account of a room; what it
\* sends are the host-disconnected records to the remaining members of the
\* groups the closed connection hosted, and those alone can reach a survivor.
C6_CloseRemovesRooms ==
  [][ /\ C6_RoomsRemoved
      /\ last'.type = "close" =>
           \A m \in BagToSet(sent') :
             /\ m.id \in DOMAIN groups
             /\ groups[m.id].host = last'.ws
             /\ m.to \in groups[m.id].members \ {last'.ws}
             /\ m = HostLeft(m.to, m.id) ]_vars

\* a close removed two rooms at once while another connection stayed open,
\* and sent nothing
C6_Witness ==
  /\ last.type = "close"
  /\ Cardinality({l \in logged : l.line = "Room closed due to disconnect"}) = 2
  /\ DOMAIN rooms = {}
  /\ clients # {}
  /\ sent = EmptyBag

\* C7: a join-group succeeds exactly when the group exists, is open and has
\* fewer members than its maxMembers (20 when the create-group gave none);
\* otherwise the requester gets one error record ('Group not found' for an
\* absent id, 'Group is full or closed' otherwise) and nothing changes.
C7_JoinGroupCapacity ==
  [][ /\ last'.type = "create-group" =>
           /\ ~last'.max.given => groups'[last'.id].maxMembers = 20
           /\ (last'.max.given /\ last'.max.val > 0)
                => groups'[last'.id].maxMembers = last'.max.val
      /\ last'.type = "join-group" =>
           LET id == last'.id
               ws == last'.ws
           IN IF id \notin DOMAIN groups
                THEN /\ groups' = groups
                     /\ sent' = SetToBag({GroupError(ws, "Group not found")})
              ELSE IF groups[id].isOpen
                      /\ Cardinality(groups[id].members) < groups[id].maxMembers
                THEN /\ groups' = [groups EXCEPT ![id].members = @ \cup {ws}]
                     /\ CopiesIn(Msg(ws, "group-joined", id, "",
                                     Cardinality(groups'[id].members),
                                     groups[id].maxMembers, NoBody), sent') = 1
                     /\ \A m \in BagToSet(sent') : m.type # "error"
                ELSE /\ groups' = groups
                     /\ sent' = SetToBag({GroupError(ws, "Group is full or closed")}) ]_vars

\* an open group of capacity 2 holds its 2nd member and just refused a third
C7_Witness ==
  /\ last.type = "join-group"
  /\ last.id \in DOMAIN groups
  /\ groups[last.id].isOpen
  /\ groups[last.id].maxMembers = 2
  /\ Cardinality(groups[last.id].members) = 2
  /\ last.ws \notin groups[last.id].members
  /\ sent = SetToBag({GroupError(last.ws, "Group is full or closed")})

\* C8: a close-group from the host sets isOpen to false and sends one
\* group-closed record to every current member, the host included; members,
\* host and maxMembers stay, the group is not deleted, and as long as the
\* group lives it stays closed and every join-group on it is refused.
C8_CloseGroupByHost ==
  [][ /\ (/\ last'.type = "close-group"
          /\ last'.id \in DOMAIN groups
          /\ groups[last'.id].host = last'.ws)
         => /\ groups' = [groups EXCEPT ![last'.id].isOpen = FALSE]
            /\ sent' = SetToBag({Msg(m, "group-closed", last'.id, "", 0, 0, NoBody) :
                                   m \in groups[last'.id].members})
      /\ \A id \in DOMAIN groups \cap DOMAIN groups' :
           ~groups[id].isOpen => ~groups'[id].isOpen
      /\ (/\ last'.type = "join-group"
          /\ last'.id \in DOMAIN groups
          /\ ~groups[last'.id].isOpen)
         => /\ groups' = groups
            /\ sent' = SetToBag({GroupError(last'.ws, "Group is full or closed")}) ]_vars

\* the host closed a group of two and both members got the group-closed
C8_Witness ==
  /\ last.type = "close-group"
  /\ last.id \in DOMAIN groups
  /\ groups[last.id].host = last.ws
  /\ Cardinality(groups[last.id].members) = 2
  /\ ~groups[last.id].isOpen
  /\ sent = SetToBag({Msg(m, "group-closed", last.id, "", 0, 0, NoBody) :
                        m \in groups[last.id].members})

\* C9: close-group and share-torrent from a connection that is not the
\* group's host, and group-chat from a connection that is not a member, send
\* nothing to anyone and change nothing.
C9_UnauthorizedIsSilent ==
  [][ /\ (/\ last'.type \in {"close-group", "share-torrent"}
          /\ ~(last'.id \in DOMAIN groups /\ groups[last'.id].host = last'.ws))
         => (sent' = EmptyBag /\ groups' = groups /\ rooms' = rooms)
      /\ (/\ last'.type = "group-chat"
          /\ ~(last'.id \in DOMAIN groups /\ last'.ws \in groups[last'.id].members))
         => (sent' = EmptyBag /\ groups' = groups /\ rooms' = rooms) ]_vars

\* a member that is not the host asked to close an open group: nothing sent
C9_Witness ==
  /\ last.type = "close-group"
  /\ last.id \in DOMAIN groups
  /\ last.ws \in groups[last.id].members
  /\ groups[last.id].host # last.ws
  /\ groups[last.id].isOpen
  /\ sent = EmptyBag

\* C10: when the host of a group closes, every remaining member receives
\* exactly one group-closed record for that group, reason 'Host
\* disconnected', the closed host receives nothing, the group is removed, and
\* a join-group issued next on that id answers 'Group not found'.
C10_HostDisconnect ==
  [][ /\ last'.type = "close" =>
           /\ \A id \in DOMAIN groups :
                groups[id].host = last'.ws =>
                  /\ id \notin DOMAIN groups'
                  /\ \A c \in groups[id].members \ {last'.ws} :
                       /\ CopiesIn(HostLeft(c, id), sent') = 1
                       /\ \A m \in BagToSet(sent') :
                            (m.to = c /\ m.id = id) => m = HostLeft(c, id)
           /\ \A m \in BagToSet(sent') : m.to # last'.ws
      /\ (/\ last.type = "close"
          /\ last'.type = "join-group"
          /\ HostLeftLine(last'.id) \in logged)
         => /\ sent' = SetToBag({GroupError(last'.ws, "Group not found")})
            /\ groups' = groups ]_vars

\* the host of a group with two other members closed: both were told
C10_Witness ==
  /\ last.type = "close"
  /\ \E id \in GroupIdInputs :
       /\ HostLeftLine(id) \in logged
       /\ id \notin DOMAIN groups
       /\ \E c, d \in clients :
            c # d /\ sent = SetToBag({HostLeft(c, id), HostLeft(d, id)})

\* C11: when the connection of a non-host member closes, each group it
\* belonged to without hosting it stays in the registry with exactly that
\* connection removed from the member set (host, isOpen and maxMembers as
\* before) and no record about that group is sent; a connection that hosts
\* none of its groups causes no record at all.
C11_MemberDisconnect ==
  [][last'.type = "close" =>
       LET ws == last'.ws
           hosted == {id \in DOMAIN groups : groups[id].host = ws /\ ws \in groups[id].members}
           joined == {id \in DOMAIN groups : groups[id].host # ws /\ ws \in groups[id].members}
       IN  /\ \A id \in joined :
                 /\ id \in DOMAIN groups'
                 /\ groups'[id] = [groups[id] EXCEPT !.members = @ \ {ws}]
                 /\ \A m \in BagToSet(sent') : m.id # id
           /\ hosted = {} => sent' = EmptyBag]_vars

\* a member that is not the host has just disconnected from a group that
\* lives on with two members, and nothing was sent
C11_Witness ==
  /\ last.type = "close"
  /\ sent = EmptyBag
  /\ \E id \in DOMAIN groups :
        /\ Log("Member left group", id) \in logged
        /\ last.ws \notin groups[id].members
        /\ Cardinality(groups[id].members) = 2

\* C12: on a successful join-group every member other than the joiner
\* receives exactly one member-joined record, the joiner receives exactly one
\* group-joined record carrying the group's maxMembers, nothing else is sent,
\* and the memberCount of each record is the size of the member set after
\* the join.
C12_JoinGroupRecords ==
  [][(/\ last'.type = "join-group"
      /\ last'.id \in DOMAIN groups
      /\ groups[last'.id].isOpen
      /\ Cardinality(groups[last'.id].members) < groups[last'.id].maxMembers) =>
       LET id == last'.id
           ws == last'.ws
           count == Cardinality(groups'[id].members) IN
       /\ ws \in groups'[id].members
       /\ sent' = SetToBag({Msg(m, "member-joined", id, "", count, 0, NoBody) :
                              m \in groups'[id].members \ {ws}})
                  (+) SetToBag({Msg(ws, "group-joined", id, "", count,
                                    groups'[id].maxMembers, NoBody)})]_vars

\* a third connection has just joined a group of two: two member-joined
\* records and one group-joined record, all carrying 3
C12_Witness ==
  /\ last.type = "join-group"
  /\ last.id \in DOMAIN groups
  /\ Cardinality(groups[last.id].members) = 3
  /\ Cardinality({m \in BagToSet(sent) : m.type = "member-joined" /\ m.count = 3}) = 2
  /\ \E m \in BagToSet(sent) : m.type = "group-joined" /\ m.to = last.ws /\ m.count = 3

\* C13: a share-torrent request from the group's host delivers exactly one
\* torrent-shared record, carrying the request's groupId and torrent fields,
\* to every current member other than the host; the host receives nothing
\* and the group state is unchanged, whether the group is open or closed.
C13_ShareTorrentByHost ==
  [][(/\ last'.type = "share-torrent"
      /\ last'.id \in DOMAIN groups
      /\ groups[last'.id].host = last'.ws) =>
       /\ sent' = SetToBag({Msg(m, "torrent-shared", last'.id, "", 0, 0, last'.body) :
                              m \in groups[last'.id].members \ {last'.ws}})
       /\ \A m \in BagToSet(sent') : m.to # last'.ws
       /\ groups' = groups
       /\ rooms' = rooms]_vars

\* the host of a closed group with another member has just shared a torrent
\* and that member received it
C13_Witness ==
  /\ last.type = "share-torrent"
  /\ last.id \in DOMAIN groups
  /\ groups[last.id].host = last.ws
  /\ ~groups[last.id].isOpen
  /\ \E m \in groups[last.id].members \ {last.ws} :
        CopiesIn(Msg(m, "torrent-shared", last.id, "", 0, 0, last.body), sent) = 1

\* C14: a chat-message for a live room is delivered to exactly the
\* connections among the room's host and guest that are not the sender,
\* never back to the sender and never to a connection outside the room; for
\* an absent room nothing is sent; no registry changes.
C14_ChatDelivery ==
  [][last'.type = "chat-message" =>
       /\ rooms' = rooms
       /\ groups' = groups
       /\ IF last'.id \in DOMAIN rooms
            THEN /\ {m.to : m \in BagToSet(sent')} =
                      {rooms[last'.id].host, rooms[last'.id].guest} \ {last'.ws, NoConn}
                 /\ \A m \in BagToSet(sent') :
                       m = Msg(m.to, "chat-message", last'.id, "", 0, 0, last'.body)
            ELSE sent' = EmptyBag]_vars

\* the guest of a room of two distinct connections has just chatted with a
\* third connection online: the host alone received the message
C14_Witness ==
  /\ last.type = "chat-message"
  /\ last.id \in DOMAIN rooms
  /\ rooms[last.id].guest = last.ws
  /\ rooms[last.id].host # last.ws
  /\ Cardinality(clients) = 3
  /\ sent = SetToBag({Msg(rooms[last.id].host, "chat-message", last.id, "", 0, 0, last.body)})

\* C15: the disconnect handler is idempotent: run a second time for the same
\* connection, directly after the first run, it leaves both registries
\* unchanged and sends no message.
C15_CloseIdempotent ==
  [][(last.type = "close" /\ last'.type = "close-again" /\ last'.ws = last.ws) =>
       /\ rooms' = rooms
       /\ groups' = groups
       /\ sent' = EmptyBag]_vars

\* the handler has run twice for a connection while another connection's
\* room and a group of two other members are live
C15_Witness ==
  /\ last.type = "close-again"
  /\ last.ws \notin clients
  /\ rooms # <<>>
  /\ \E id \in DOMAIN groups : Cardinality(groups[id].members) = 2
  /\ sent = EmptyBag

\* C16: every live group (created with a positive integer maxMembers, or
\* with none or 0 and so with 20) has at most maxMembers members after every
\* event, and the maxMembers of a group never changes while it lives.
C16_CapacityBound ==
  [][/\ \A id \in DOMAIN groups' :
          Cardinality(groups'[id].members) <= groups'[id].maxMembers
     /\ \A id \in DOMAIN groups \cap DOMAIN groups' :
          groups'[id].maxMembers = groups[id].maxMembers]_vars

\* after a disconnect a connection has just taken the last place of a group
\* of capacity 2
C16_Witness ==
  /\ last.type = "join-group"
  /\ last.id \in DOMAIN groups
  /\ groups[last.id].maxMembers = 2
  /\ Cardinality(groups[last.id].members) = 2
  /\ nconn = 3
  /\ Cardinality(clients) = 2
  /\ \E m \in BagToSet(sent) : m.type = "group-joined" /\ m.to = last.ws

\* C17 (as claimed): once a group has been deleted by its host's disconnect
\* its id stays dead, so that every later join-group, close-group,
\* share-torrent or group-chat naming it finds no group.  Stated for the event
\* that directly follows the deletion: the id is not in the registry after it.
C17_DeletedIdStaysDead ==
  [][\A id \in GroupIdInputs :
       (last.type = "close" /\ HostLeftLine(id) \in logged) =>
         id \notin DOMAIN groups']_vars

\* C18: a group's isOpen flag is true at creation and, while the group
\* lives, only ever changes from true to false: no event sets it back to
\* true.
C18_IsOpenMonotone ==
  [][/\ last'.type = "create-group" => groups'[last'.id].isOpen
     /\ \A id \in DOMAIN groups \cap DOMAIN groups' :
          ~groups[id].isOpen => ~groups'[id].isOpen]_vars

\* a closed group with room left has just refused a join and is still closed
C18_Witness ==
  /\ last.type = "join-group"
  /\ last.id \in DOMAIN groups
  /\ ~groups[last.id].isOpen
  /\ Cardinality(groups[last.id].members) < groups[last.id].maxMembers
  /\ sent = SetToBag({GroupError(last.ws, "Group is full or closed")})

\* C19 (as claimed): a signal for a live room from a connection that is
\* neither the room's host nor its guest is forwarded to the room's guest,
\* when a guest is present, and is not delivered to the host.
C19_StrangerReachesGuest ==
  [][(/\ last'.type = "signal"
      /\ last'.id \in DOMAIN rooms
      /\ last'.ws \notin {rooms[last'.id].host, rooms[last'.id].guest}) =>
       /\ rooms[last'.id].guest # NoConn =>
            sent' = SetToBag({Msg(rooms[last'.id].guest, "signal", last'.id, "", 0, 0,
                                  last'.body)})
       /\ \A m \in BagToSet(sent') : m.to # rooms[last'.id].host]_vars

\* C19 (amended): a signal for a live room from a connection that is neither
\* the room's host nor its guest is forwarded to the room's host, with or
\* without a guest present, and to no other connection; no state changes.
C19_StrangerReachesHost ==
  [][(/\ last'.type = "signal"
      /\ last'.id \in DOMAIN rooms
      /\ last'.ws \notin {rooms[last'.id].host, rooms[last'.id].guest}) =>
       /\ sent' = SetToBag({Msg(rooms[last'.id].host, "signal", last'.id, "", 0, 0,
                                 last'.body)})
       /\ rooms' = rooms
       /\ groups' = groups]_vars

\* a third connection has just signalled into a room of two others: the
\* host received the signal and the guest did not
C19_Witness ==
  /\ last.type = "signal"
  /\ last.id \in DOMAIN rooms
  /\ rooms[last.id].guest \notin {NoConn, rooms[last.id].host, last.ws}
  /\ rooms[last.id].host # last.ws
  /\ sent = SetToBag({Msg(rooms[last.id].host, "signal", last.id, "", 0, 0, last.body)})

\* C20: handlers run one at a time, so requests racing on one guest-less
\* room are served in some order.  The first join-room served takes the
\* guest slot and receives peer-joined; a filled slot is never reassigned
\* while the room lives, so every other requester gets the error record and
\* is stored nowhere in the room; a disconnect of the host or guest removes
\* the room whole, and a join served after it gets the error record.  The
\* requesters are connections other than the room's host.
C20_OneGuestPerRoom ==
  [][/\ \A id \in DOMAIN rooms \cap DOMAIN rooms' :
          /\ rooms'[id].host = rooms[id].host
          /\ rooms[id].guest # NoConn => rooms'[id].guest = rooms[id].guest
          /\ rooms'[id].guest # rooms[id].guest =>
                last'.type = "join-room" /\ last'.id = id /\ rooms'[id].guest = last'.ws
     /\ last'.type = "join-room" =>
          IF last'.id \in DOMAIN rooms /\ rooms[last'.id].guest = NoConn
            THEN /\ rooms' = [rooms EXCEPT ![last'.id].guest = last'.ws]
                 /\ CopiesIn(PeerJoined(last'.ws), sent') >= 1
                 /\ \A m \in BagToSet(sent') : m.type = "peer-joined"
            ELSE /\ rooms' = rooms
                 /\ sent' = SetToBag({RoomError(last'.ws)})
     /\ last'.type = "close" =>
          \A id \in DOMAIN rooms :
            IF last'.ws \in {rooms[id].host, rooms[id].guest}
              THEN id \notin DOMAIN rooms'
              ELSE id \in DOMAIN rooms' /\ rooms'[id] = rooms[id]]_vars

\* of two connections after the guest slot of a third connection's room,
\* one holds it and the other has just been refused and is not in the room
C20_Witness ==
  /\ last.type = "join-room"
  /\ last.id \in DOMAIN rooms
  /\ rooms[last.id].host # last.ws
  /\ rooms[last.id].guest \notin {NoConn, last.ws, rooms[last.id].host}
  /\ sent = SetToBag({RoomError(last.ws)})

\* C21: in every reachable state the host of every live group is in that
\* group's member set, so no live group has an empty member set, and the
\* 'Group deleted due to no members' branch of the disconnect handler has
\* not been taken by the handler that ran last.
C21_HostIsMember ==
  /\ \A id \in DOMAIN groups :
        /\ groups[id].host \in groups[id].members
        /\ groups[id].members # {}
  /\ \A id \in GroupIdInputs : Log("Group deleted due to no members", id) \notin logged

\* the last member other than the host has just disconnected: the group
\* lives on with its host as the only member
C21_Witness ==
  /\ last.type = "close"
  /\ \E id \in DOMAIN groups :
        /\ Log("Member left group", id) \in logged
        /\ groups[id].members = {groups[id].host}
        /\ groups[id].host \in clients

\* C22: no dangling references.  Closed connections issue no messages; in
\* every reachable state every connection stored as a room's host or guest,
\* or as a group's host or member, is still open, and right after a
\* connection's disconnect handler has run that connection is in no live
\* room and in no live group.
C22_NoDanglingReferences ==
  /\ \A id \in DOMAIN rooms :
        /\ rooms[id].host \in clients
        /\ rooms[id].guest \in clients \cup {NoConn}
  /\ \A id \in DOMAIN groups :
        /\ groups[id].host \in clients
        /\ groups[id].members \subseteq clients
  /\ last.type = "close" =>
        /\ last.ws \notin clients
        /\ \A id \in DOMAIN rooms : last.ws \notin {rooms[id].host, rooms[id].guest}
        /\ \A id \in DOMAIN groups :
              last.ws # groups[id].host /\ last.ws \notin groups[id].members

\* a connection that was in a room and a member of another connection's
\* group has just disconnected: the room is gone, the group lives without it
C22_Witness ==
  /\ last.type = "close"
  /\ \E id \in RoomIdInputs : RoomClosedLine(id) \in logged
  /\ \E id \in DOMAIN groups :
        /\ Log("Member left group", id) \in logged
        /\ last.ws \notin groups[id].members
        /\ groups[id].members # {}
        /\ groups[id].members \subseteq clients

\* C23 (as claimed): a successful join-group always grows the member set by
\* exactly one: whenever a join-group is answered with group-joined, or a
\* member-joined is emitted, the requester was not a member before and is
\* one after, and the size has grown by one.
C23_JoinAddsOneMember ==
  [][(/\ last'.type = "join-group"
      /\ \E m \in BagToSet(sent') : m.type \in {"group-joined", "member-joined"}) =>
       /\ last'.id \in DOMAIN groups
       /\ last'.ws \notin groups[last'.id].members
       /\ groups'[last'.id].members = groups[last'.id].members \cup {last'.ws}
       /\ Cardinality(groups'[last'.id].members) =
            Cardinality(groups[last'.id].members) + 1]_vars

====
